---- MODULE Spec2Model ----
(***************************************************************************)
(* Model of scripts/build_rom.py: the script that wraps an EFI driver      *)
(* image into a PCI option ROM (ROM header, PCIR record, 0xFF filler,      *)
(* payload, 0x00 filler).                                                  *)
(*                                                                         *)
(* A byte string is kept as a sequence of segments <<s, n>>: the bytes s   *)
(* repeated n times, as in the script's b"\xff" * n; a segment with n > 1  *)
(* has a one-byte s.  BLen, ByteAt, Take, Drop and SameBytes work on the   *)
(* bytes, so that payloads of tens of megabytes (where the 16-bit sector   *)
(* fields overflow) stay checkable.                                        *)
(*                                                                         *)
(* ctypes.Structure uses the host's native byte order and alignment; the   *)
(* model is of a little-endian host with natural alignment (x86-64).       *)
(***************************************************************************)
EXTENDS Integers, Sequences, FiniteSets, TLC

VARIABLES
    pc,                  \* the statement the script is at
    argv,                \* command line: [vendor, device] as hex text
    statSize,            \* what os.stat(args.input.name).st_size reports
    args,                \* parsed arguments: [vendor, device] integers
    inputOpen,           \* args.input is an open file object
    outputOpen,          \* output is an open file object
    outputExists,        \* a file exists at args.output
    output,              \* contents of the file at args.output
    efi_image_offset,
    output_file_size,
    output_file_sectors,
    rom_header,          \* RomHeader instance: field name -> stored value
    pcir,                \* PCIR instance: field name -> stored value
    payload              \* the bytes args.input.read() returned

vars == <<pc, argv, statSize, args, inputOpen, outputOpen, outputExists, output,
          efi_image_offset, output_file_size, output_file_sectors,
          rom_header, pcir, payload>>

-----------------------------------------------------------------------------
(* Bounds of the model *)

\* payload lengths are taken within MaxDelta bytes of each anchor length
MaxDelta == 1
\* read() may return up to ReadSkew bytes fewer or more than st_size
ReadSkew == 1

-----------------------------------------------------------------------------
(* Arithmetic *)

Max(a, b) == IF a >= b THEN a ELSE b

\* math.ceil(a / b) for a >= 0, b > 0
CeilDiv(a, b) == (a + b - 1) \div b

\* faulty variant: rounds down instead of up
Floor512(x) == x \div 512

\* math.ceil(x / 512) as written at lines 113 and 116
Ceil512(x) == CeilDiv(x, 512)

\* faulty variant: a store that clamps to the largest value of the field
UIntSaturating(x, bytes) ==
    IF bytes = 1 THEN (IF x > 255 THEN 255 ELSE x % 256)
    ELSE IF bytes = 2 THEN (IF x > 65535 THEN 65535 ELSE x % 65536)
    ELSE x

\* ctypes stores an integer into a c_uintN field without overflow check
UInt(x, bytes) == IF bytes = 1 THEN x % 256
                  ELSE IF bytes = 2 THEN x % 65536
                  ELSE x   \* 4-byte fields only ever get values < 2^31 here

-----------------------------------------------------------------------------
(* Byte strings *)

Empty == << >>

\* a literal byte string given as a sequence of bytes
Lit(s) == IF s = << >> THEN << >> ELSE << <<s, 1>> >>

\* faulty variant: one filler byte short
RepOneShort(v, n) == IF n > 1 THEN << << <<v>>, n - 1 >> >> ELSE << >>

\* b"\xNN" * n : the empty string when n <= 0
Rep(v, n) == IF n > 0 THEN << << <<v>>, n >> >> ELSE << >>

\* length of one segment
SegLen(g) == Len(g[1]) * g[2]

\* byte at 0-based offset k of one segment
SegByte(g, k) == g[1][(k % Len(g[1])) + 1]

\* len(b)
RECURSIVE BLen(_)
BLen(b) == IF b = << >> THEN 0 ELSE SegLen(b[1]) + BLen(Tail(b))

\* b[off], or -1 past the end
RECURSIVE ByteAt(_, _)
ByteAt(b, off) ==
    IF b = << >> THEN -1
    ELSE IF off < SegLen(b[1]) THEN SegByte(b[1], off)
    ELSE ByteAt(Tail(b), off - SegLen(b[1]))

\* the first n bytes of one segment, 0 < n < SegLen(g)
SegTake(g, n) == IF g[2] = 1 THEN <<SubSeq(g[1], 1, n), 1>> ELSE <<g[1], n>>

\* one segment without its first n bytes, 0 < n < SegLen(g)
SegDrop(g, n) ==
    IF g[2] = 1 THEN <<SubSeq(g[1], n + 1, Len(g[1])), 1>> ELSE <<g[1], g[2] - n>>

\* b[:n]
RECURSIVE Take(_, _)
Take(b, n) ==
    IF n <= 0 \/ b = << >> THEN << >>
    ELSE IF SegLen(b[1]) <= n THEN <<b[1]>> \o Take(Tail(b), n - SegLen(b[1]))
    ELSE <<SegTake(b[1], n)>>

\* b[n:]
RECURSIVE Drop(_, _)
Drop(b, n) ==
    IF n <= 0 \/ b = << >> THEN b
    ELSE IF SegLen(b[1]) <= n THEN Drop(Tail(b), n - SegLen(b[1]))
    ELSE <<SegDrop(b[1], n)>> \o Tail(b)

\* b[from : from + n]
Slice(b, from, n) == Take(Drop(b, from), n)

\* offset at which segment i of b starts
RECURSIVE SegStart(_, _)
SegStart(b, i) == IF i = 1 THEN 0 ELSE SegStart(b, i - 1) + SegLen(b[i - 1])

\* the offsets at which the byte value of b can change
Breaks(b) ==
    UNION { {SegStart(b, i) + k : k \in 0..(Len(b[i][1]) - 1)} : i \in 1..Len(b) }

\* a == b as byte strings: both are constant between breaks
SameBytes(a, b) ==
    /\ BLen(a) = BLen(b)
    /\ \A off \in Breaks(a) \cup Breaks(b) : ByteAt(a, off) = ByteAt(b, off)

\* every byte of b is v
AllBytes(b, v) == \A i \in 1..Len(b) : \A j \in 1..Len(b[i][1]) : b[i][1][j] = v

\* little-endian encoding of x in n bytes
RECURSIVE LE(_, _)
LE(x, n) == IF n = 0 THEN << >> ELSE <<x % 256>> \o LE(x \div 256, n - 1)

\* int.from_bytes(s, byteorder="little")
RECURSIVE FromBytesLE(_)
FromBytesLE(s) == IF s = << >> THEN 0 ELSE s[1] + 256 * FromBytesLE(Tail(s))

\* the little-endian unsigned integer held in n bytes of b at offset off
RECURSIVE ReadLE(_, _, _)
ReadLE(b, off, n) ==
    IF n = 0 THEN 0 ELSE ByteAt(b, off) + 256 * ReadLE(b, off + 1, n - 1)

-----------------------------------------------------------------------------
(* ctypes.Structure: layout and serialization *)

\* program constants of RomHeader and PCIR
SIGNATURE == 43605                \* 0xAA55
EFI_SIGNATURE == 3825             \* 0xEF1
EFI_BOOT_SERVICE_DRIVER == 11     \* 0x0B
X86_64 == 34404                   \* 0x8664
LAST_IMAGE == 128                 \* 0x80
EFI_IMAGE == 3
PCI_3_0 == 3

\* _fields_ as <<name, size of one element, number of elements>>
RomHeaderFields == <<
    <<"signature", 2, 1>>,
    <<"initialization_size", 2, 1>>,
    <<"efi_signature", 4, 1>>,
    <<"efi_subsystem", 2, 1>>,
    <<"efi_machine_type", 2, 1>>,
    <<"efi_compression_type", 2, 1>>,
    <<"_reserved", 1, 8>>,
    <<"efi_image_header_offset", 2, 1>>,
    <<"pcir_offset", 2, 1>> >>

PCIRFields == <<
    <<"signature", 4, 1>>,
    <<"vendor_id", 2, 1>>,
    <<"device_id", 2, 1>>,
    <<"device_list_offset", 2, 1>>,
    <<"length", 2, 1>>,
    <<"revision", 1, 1>>,
    <<"class_code", 1, 3>>,
    <<"image_length", 2, 1>>,
    <<"code_revision", 2, 1>>,
    <<"code_type", 1, 1>>,
    <<"indicator", 1, 1>>,
    <<"max_runtime_image_length", 2, 1>>,
    <<"config_utility_code_header_offset", 2, 1>>,
    <<"dmtfclp_entry_point_offset", 2, 1>> >>

FieldNames(fields) == {fields[i][1] : i \in 1..Len(fields)}

FieldIndex(fields, name) == CHOOSE i \in 1..Len(fields) : fields[i][1] = name

AlignUp(off, a) == CeilDiv(off, a) * a

\* native layout: each field at the next offset aligned to its element size
RECURSIVE FieldOffset(_, _)
FieldOffset(fields, i) ==
    IF i = 1 THEN 0
    ELSE AlignUp(FieldOffset(fields, i - 1) + fields[i - 1][2] * fields[i - 1][3],
                 fields[i][2])

FieldEnd(fields, i) == FieldOffset(fields, i) + fields[i][2] * fields[i][3]

RECURSIVE StructAlign(_)
StructAlign(fields) ==
    IF fields = << >> THEN 1 ELSE Max(fields[1][2], StructAlign(Tail(fields)))

\* faulty variant: a packed layout: no tail padding
SizeOfPacked(fields) == FieldEnd(fields, Len(fields))

\* ctypes.sizeof: the end of the last field rounded up to the alignment
SizeOf(fields) == AlignUp(FieldEnd(fields, Len(fields)), StructAlign(fields))

\* a freshly allocated structure is zero-filled
ZeroStruct(fields) == [n \in FieldNames(fields) |-> 0]

\* struct.name = value
SetField(fields, struct, name, value) ==
    [struct EXCEPT ![name] = UInt(value, fields[FieldIndex(fields, name)][2])]

Zeros(n) == [k \in 1..n |-> 0]

RECURSIVE RawFrom(_, _, _, _)
RawFrom(fields, struct, i, pos) ==
    IF i > Len(fields) THEN Zeros(SizeOf(fields) - pos)
    ELSE Zeros(FieldOffset(fields, i) - pos)
         \o (IF fields[i][3] = 1 THEN LE(struct[fields[i][1]], fields[i][2])
             ELSE Zeros(fields[i][2] * fields[i][3]))
         \o RawFrom(fields, struct, i + 1, FieldEnd(fields, i))

\* faulty variant: the fields alone, without the structure's tail padding
RawPacked(fields, struct) ==
    Lit(SubSeq(RawFrom(fields, struct, 1, 0), 1, SizeOfPacked(fields)))

\* serialized.contents.raw : the sizeof(struct) bytes of the structure
Raw(fields, struct) == Lit(RawFrom(fields, struct, 1, 0))

\* RomHeader.__init__
NewRomHeader ==
    LET F == RomHeaderFields
        s0 == ZeroStruct(F)
        s1 == SetField(F, s0, "signature", SIGNATURE)
        s2 == SetField(F, s1, "efi_signature", EFI_SIGNATURE)
        s3 == SetField(F, s2, "efi_subsystem", EFI_BOOT_SERVICE_DRIVER)
        s4 == SetField(F, s3, "efi_machine_type", X86_64)
    IN SetField(F, s4, "pcir_offset", SizeOf(RomHeaderFields))

\* b"PCIR"
PCIR_MAGIC == <<80, 67, 73, 82>>

\* PCIR.__init__(vendor, device)
NewPCIR(vendor, device) ==
    LET F == PCIRFields
        s0 == ZeroStruct(F)
        s1 == SetField(F, s0, "signature", FromBytesLE(PCIR_MAGIC))
        s2 == SetField(F, s1, "indicator", LAST_IMAGE)
        s3 == SetField(F, s2, "code_type", EFI_IMAGE)
        s4 == SetField(F, s3, "length", SizeOf(PCIRFields))
        s5 == SetField(F, s4, "revision", PCI_3_0)
        s6 == SetField(F, s5, "vendor_id", vendor)
    IN SetField(F, s6, "device_id", device)

-----------------------------------------------------------------------------
(* Argument parsing: type=lambda x: int(x, 16) *)

HexDigit == [c \in {"0","1","2","3","4","5","6","7","8","9",
                    "a","b","c","d","e","f","A","B","C","D","E","F"} |->
    CASE c = "0" -> 0  [] c = "1" -> 1  [] c = "2" -> 2  [] c = "3" -> 3
      [] c = "4" -> 4  [] c = "5" -> 5  [] c = "6" -> 6  [] c = "7" -> 7
      [] c = "8" -> 8  [] c = "9" -> 9
      [] c \in {"a", "A"} -> 10  [] c \in {"b", "B"} -> 11
      [] c \in {"c", "C"} -> 12  [] c \in {"d", "D"} -> 13
      [] c \in {"e", "E"} -> 14  [] c \in {"f", "F"} -> 15]

RECURSIVE DigitsValue(_, _)
DigitsValue(s, acc) ==
    IF s = << >> THEN acc ELSE DigitsValue(Tail(s), 16 * acc + HexDigit[s[1]])

\* int(text, 16): optional sign, optional 0x prefix, at least one hex digit.
\* [ok |-> FALSE] stands for ValueError, which argparse turns into exit 2.
ParseHex(text) ==
    LET signed == text # << >> /\ text[1] \in {"-", "+"}
        neg    == text # << >> /\ text[1] = "-"
        t1     == IF signed THEN Tail(text) ELSE text
        pref   == Len(t1) >= 2 /\ t1[1] = "0" /\ t1[2] \in {"x", "X"}
        t2     == IF pref THEN Tail(Tail(t1)) ELSE t1
        good   == t2 # << >> /\ \A i \in 1..Len(t2) : t2[i] \in DOMAIN HexDigit
    IN IF good
       THEN [ok |-> TRUE,
             val |-> IF neg THEN 0 - DigitsValue(t2, 0) ELSE DigitsValue(t2, 0)]
       ELSE [ok |-> FALSE, val |-> 0]

-----------------------------------------------------------------------------
(* Inputs *)

\* texts given to -v and -d: 8086, 0x10000, -1, 1g
HexTexts == { <<"8","0","8","6">>, <<"0","x","1","0","0","0","0">>,
              <<"-","1">>, <<"1","g">> }

\* 0 and 512: sector-aligned; 468: 44 + N is a multiple of 512;
\* 65534 * 512: the last length whose sector count fits 16 bits
AnchorLengths == {0, 468, 512, 65534 * 512, 65535 * 512}

Lengths == {n \in {a + d : a \in AnchorLengths, d \in (0 - MaxDelta)..MaxDelta} :
                n >= 0}

\* what read() can return for a file that stat reported as n bytes long
ReadLengths(n) == {m \in (n - ReadSkew)..(n + ReadSkew) : m >= 0}

PayloadFills == {0, 66}

\* an m-byte image: "MZ", a body of one byte value, a last byte 0xCC
PayloadBytes(m, fill) ==
    Take(Lit(<<77, 90>>) \o Rep(fill, m - 3) \o Lit(<<204>>), m)

\* what the output path holds before the run, when it exists
OldFile == Lit(<<1, 2, 3>>)

-----------------------------------------------------------------------------
(* The script, statement by statement *)

\* faulty variant: the PCIR record written before the ROM header
PipelineSwapped == <<"parse_args", "open_output", "compute_sizes", "write_pcir",
                     "write_rom_header", "pad_ff", "write_payload", "pad_zero",
                     "close", "done">>

\* the order of the top-level statements, lines 104..133
Pipeline == <<"parse_args", "open_output", "compute_sizes", "write_rom_header",
              "write_pcir", "pad_ff", "write_payload", "pad_zero", "close",
              "done">>

Index(p) == CHOOSE i \in 1..Len(Pipeline) : Pipeline[i] = p

Succ(p) == Pipeline[Index(p) + 1]

\* output.tell()
Tell(out) == BLen(out)

\* the file after output.write(data)
Write(out, data) == out \o data

Init ==
    /\ pc = Pipeline[1]
    /\ argv \in [vendor : HexTexts, device : HexTexts]
    /\ statSize \in Lengths
    /\ args = [vendor |-> 0, device |-> 0]
    /\ inputOpen = FALSE
    /\ outputOpen = FALSE
    /\ outputExists \in BOOLEAN
    /\ output = IF outputExists THEN OldFile ELSE Empty
    /\ efi_image_offset = 0
    /\ output_file_size = 0
    /\ output_file_sectors = 0
    /\ rom_header = ZeroStruct(RomHeaderFields)
    /\ pcir = ZeroStruct(PCIRFields)
    /\ payload = Empty

\* an uncaught exception: the interpreter unwinds, nothing is closed by the script
Raise == pc' = "raised"

\* line 104: parse -v and -d with int(x, 16), open -i with FileType("rb")
ParseArgs ==
    /\ pc = "parse_args"
    /\ LET v == ParseHex(argv.vendor)
           d == ParseHex(argv.device)
       IN \/ /\ ~(v.ok /\ d.ok)
             /\ pc' = "usage_error"
             /\ UNCHANGED <<args, inputOpen>>
          \/ /\ v.ok /\ d.ok              \* the input file cannot be opened
             /\ pc' = "usage_error"
             /\ UNCHANGED <<args, inputOpen>>
          \/ /\ v.ok /\ d.ok
             /\ args' = [vendor |-> v.val, device |-> d.val]
             /\ inputOpen' = TRUE
             /\ pc' = Succ(pc)
    /\ UNCHANGED <<argv, statSize, outputOpen, outputExists, output, efi_image_offset,
                   output_file_size, output_file_sectors, rom_header, pcir,
                   payload>>

\* line 110: output = open(args.output, "wb")
OpenOutput ==
    /\ pc = "open_output"
    /\ \/ /\ output' = Empty               \* created, or truncated
          /\ outputExists' = TRUE
          /\ outputOpen' = TRUE
          /\ pc' = Succ(pc)
       \/ /\ Raise                         \* OSError
          /\ UNCHANGED <<output, outputExists, outputOpen>>
    /\ UNCHANGED <<argv, statSize, args, inputOpen, efi_image_offset,
                   output_file_size, output_file_sectors, rom_header, pcir,
                   payload>>

\* lines 112-116
ComputeSizes ==
    /\ pc = "compute_sizes"
    /\ efi_image_offset' =
           Ceil512(SizeOf(RomHeaderFields) + SizeOf(PCIRFields)) * 512
    /\ \/ /\ output_file_size' = efi_image_offset' + statSize
          /\ output_file_sectors' = Ceil512(output_file_size')
          /\ pc' = Succ(pc)
       \/ /\ Raise                         \* os.stat fails
          /\ UNCHANGED <<output_file_size, output_file_sectors>>
    /\ UNCHANGED <<argv, statSize, args, inputOpen, outputOpen, outputExists,
                   output, rom_header, pcir, payload>>

\* output.write(data): the bytes are appended, or the write raises OSError
WriteOrRaise(data) ==
    \/ /\ output' = Write(output, data)
       /\ pc' = Succ(pc)
    \/ /\ Raise
       /\ UNCHANGED output

\* lines 118-122
WriteRomHeader ==
    /\ pc = "write_rom_header"
    /\ rom_header' =
           SetField(RomHeaderFields,
                    SetField(RomHeaderFields, NewRomHeader,
                             "efi_image_header_offset", efi_image_offset),
                    "initialization_size", output_file_sectors)
    /\ WriteOrRaise(Raw(RomHeaderFields, rom_header'))
    /\ UNCHANGED <<argv, statSize, args, inputOpen, outputOpen, outputExists,
                   efi_image_offset, output_file_size, output_file_sectors,
                   pcir, payload>>

\* lines 124-127
WritePcir ==
    /\ pc = "write_pcir"
    /\ pcir' = SetField(PCIRFields, NewPCIR(args.vendor, args.device),
                        "image_length", output_file_sectors)
    /\ WriteOrRaise(Raw(PCIRFields, pcir'))
    /\ UNCHANGED <<argv, statSize, args, inputOpen, outputOpen, outputExists,
                   efi_image_offset, output_file_size, output_file_sectors,
                   rom_header, payload>>

\* line 128
PadFF ==
    /\ pc = "pad_ff"
    /\ WriteOrRaise(Rep(255, efi_image_offset - Tell(output)))
    /\ UNCHANGED <<argv, statSize, args, inputOpen, outputOpen, outputExists,
                   efi_image_offset, output_file_size, output_file_sectors,
                   rom_header, pcir, payload>>

\* line 130
WritePayload ==
    /\ pc = "write_payload"
    /\ \E m \in ReadLengths(statSize), fill \in PayloadFills :
           payload' = PayloadBytes(m, fill)
    /\ WriteOrRaise(payload')
    /\ UNCHANGED <<argv, statSize, args, inputOpen, outputOpen, outputExists,
                   efi_image_offset, output_file_size, output_file_sectors,
                   rom_header, pcir>>

\* line 131
PadZero ==
    /\ pc = "pad_zero"
    /\ WriteOrRaise(Rep(0, output_file_size - Tell(output)))
    /\ UNCHANGED <<argv, statSize, args, inputOpen, outputOpen, outputExists,
                   efi_image_offset, output_file_size, output_file_sectors,
                   rom_header, pcir, payload>>

\* line 133
Close ==
    /\ pc = "close"
    /\ outputOpen' = FALSE
    /\ pc' = Succ(pc)
    /\ UNCHANGED <<argv, statSize, args, inputOpen, outputExists, output,
                   efi_image_offset,
                   output_file_size, output_file_sectors, rom_header, pcir,
                   payload>>

Next ==
    \/ ParseArgs
    \/ OpenOutput
    \/ ComputeSizes
    \/ WriteRomHeader
    \/ WritePcir
    \/ PadFF
    \/ WritePayload
    \/ PadZero
    \/ Close

Spec == Init /\ [][Next]_vars

-----------------------------------------------------------------------------
(* Reading the produced file back *)

Done == pc = "done"

\* the read returned exactly the st_size bytes
ExactRead == BLen(payload) = statSize

Off(fields, name) == FieldOffset(fields, FieldIndex(fields, name))

StoredInitializationSize ==
    ReadLE(output, Off(RomHeaderFields, "initialization_size"), 2)

StoredEfiImageHeaderOffset ==
    ReadLE(output, Off(RomHeaderFields, "efi_image_header_offset"), 2)

StoredPcirOffset == ReadLE(output, Off(RomHeaderFields, "pcir_offset"), 2)

StoredImageLength ==
    ReadLE(output, StoredPcirOffset + Off(PCIRFields, "image_length"), 2)

StoredVendorId ==
    ReadLE(output, StoredPcirOffset + Off(PCIRFields, "vendor_id"), 2)

\* the sector count of the whole image, before it is stored in 16 bits
TrueSectors == CeilDiv(512 + statSize, 512)

IdInRange(x) == 0 <= x /\ x <= 65535

-----------------------------------------------------------------------------
(* C1 *)

\* C1 (as claimed): after a successful run the file length is a multiple of
\* 512 and equals total_sectors * 512, total_sectors = ceil((efi_image_offset
\* + N) / 512).  The script writes output_file_size - tell() = 0 filler bytes
\* after an N-byte payload, so this fails whenever N is not a multiple of 512.
C1_LengthIsSectorMultiple ==
    Done /\ ExactRead =>
        /\ BLen(output) % 512 = 0
        /\ BLen(output) = CeilDiv(efi_image_offset + statSize, 512) * 512

-----------------------------------------------------------------------------
(* C2 *)

\* C2: when the read returns exactly the N bytes stat reported, the output
\* holds those N bytes unmodified and in order from the offset stored in
\* efi_image_header_offset, and that stored offset is 512.
C2_PayloadVerbatim ==
    Done /\ ExactRead =>
        /\ StoredEfiImageHeaderOffset = 512
        /\ SameBytes(Slice(output, StoredEfiImageHeaderOffset, statSize), payload)

\* a finished run with a payload of more than one sector
C2_Witness == Done /\ ExactRead /\ statSize > 512

-----------------------------------------------------------------------------
(* C3 *)

\* C3 (as claimed): for every N the stored initialization_size and
\* image_length are equal, and equal ceil(L / 512) for the length L of the
\* produced file.  Fails once the sector count no longer fits 16 bits.
C3_SizeFieldsMatchFile ==
    Done /\ ExactRead =>
        /\ StoredInitializationSize = StoredImageLength
        /\ StoredInitializationSize = CeilDiv(BLen(output), 512)

-----------------------------------------------------------------------------
(* C4 *)

-----------------------------------------------------------------------------
(* C5 *)

PcirWritten == pc \in {"pad_ff", "write_payload", "pad_zero", "close", "done"}

\* C5: the pcir_offset stored in the ROM header is the offset at which the
\* PCIR record begins: the serialized ROM header ends there, the PCIR record
\* follows at once, and the four bytes there are 'P','C','I','R'.
C5_PcirAtStoredOffset ==
    PcirWritten =>
        /\ SameBytes(Slice(output, 0, StoredPcirOffset),
                     Raw(RomHeaderFields, rom_header))
        /\ BLen(Raw(RomHeaderFields, rom_header)) = StoredPcirOffset
        /\ SameBytes(Slice(output, StoredPcirOffset, 4), Lit(<<80, 67, 73, 82>>))
        /\ SameBytes(Slice(output, StoredPcirOffset, SizeOf(PCIRFields)),
                     Raw(PCIRFields, pcir))

\* a finished run, with the vendor ID found right after the signature
C5_Witness == Done /\ StoredPcirOffset = 28 /\ StoredVendorId = 32902

-----------------------------------------------------------------------------
(* C6 *)

\* C6 (as claimed): every byte strictly between offset 44 and the stored
\* efi_image_header_offset is 0xFF (the two records take 44 bytes).
C6_FillerFrom44 ==
    Done => \A k \in 45..(StoredEfiImageHeaderOffset - 1) : ByteAt(output, k) = 255

\* C6 (amended): the two records take exactly the first 56 bytes (28 each),
\* and every byte from offset 56 up to the stored efi_image_header_offset
\* (512) is 0xFF.
C6_FillerFrom56 ==
    Done =>
        /\ StoredEfiImageHeaderOffset = 512
        /\ SameBytes(Take(output, 56),
                     Raw(RomHeaderFields, rom_header) \o Raw(PCIRFields, pcir))
        /\ \A k \in 56..(StoredEfiImageHeaderOffset - 1) : ByteAt(output, k) = 255

\* a finished run: code_type (3) and indicator (0x80) sit at offsets 48, 49
C6_Witness == Done /\ ByteAt(output, 48) = 3 /\ ByteAt(output, 49) = 128

-----------------------------------------------------------------------------
(* C7 *)

\* C7 (as claimed): with a vendor or device ID outside [0, 0xFFFF] the run
\* ends in an error before any write: the output file is not created or is
\* left untouched, and no header is serialized.
C7_OutOfRangeRejected ==
    LET v == ParseHex(argv.vendor)
        d == ParseHex(argv.device)
    IN (v.ok /\ d.ok /\ ~(IdInRange(v.val) /\ IdInRange(d.val))) =>
        /\ ~outputOpen
        /\ ~Done
        /\ output = IF outputExists THEN OldFile ELSE Empty

-----------------------------------------------------------------------------
(* C8 *)

\* C8 (as claimed): on every exit path, successful completion as well as a
\* failure after the sink was opened (os.stat or a write raising), the sink
\* and the source have been closed when the run ends.  efi_image_offset is
\* set by the first statement after the open.
C8_ReleasedOnExit ==
    (pc = "done" \/ (pc = "raised" /\ efi_image_offset > 0)) =>
        ~outputOpen /\ ~inputOpen

-----------------------------------------------------------------------------
(* C9 *)

C9_Step ==
    outputOpen /\ output' # output =>
        LET chunk   == Drop(output', BLen(output))
            headers == Raw(RomHeaderFields, rom_header) \o Raw(PCIRFields, pcir)
        IN /\ output_file_size = efi_image_offset + statSize
           /\ efi_image_offset > 0
           /\ SameBytes(Take(output', BLen(output)), output)
           /\ CASE pc = "write_rom_header" ->
                       /\ output = Empty
                       /\ SameBytes(chunk, Raw(RomHeaderFields, rom_header'))
                  [] pc = "write_pcir" ->
                       /\ SameBytes(output, Raw(RomHeaderFields, rom_header))
                       /\ SameBytes(chunk, Raw(PCIRFields, pcir'))
                  [] pc = "pad_ff" ->
                       /\ SameBytes(output, headers)
                       /\ AllBytes(chunk, 255)
                       /\ BLen(output') = efi_image_offset
                  [] pc = "write_payload" ->
                       /\ SameBytes(Take(output, BLen(headers)), headers)
                       /\ AllBytes(Drop(output, BLen(headers)), 255)
                       /\ BLen(output) = efi_image_offset
                       /\ SameBytes(chunk, payload')
                  [] pc = "pad_zero" ->
                       /\ SameBytes(Drop(output, efi_image_offset), payload)
                       /\ AllBytes(chunk, 0)
                  [] OTHER -> FALSE

\* C9: N is known before any header byte is written, and the sink only ever
\* grows, by the ROM header, then the PCIR record, then the 0xFF filler up
\* to efi_image_offset, then the payload, then the 0x00 filler, each
\* appended where the previous one ended.
C9_WriteOrder == [][C9_Step]_vars

\* a finished run in which all five writes put bytes into the file
C9_Witness == Done /\ BLen(payload) > 0 /\ BLen(payload) < statSize

-----------------------------------------------------------------------------
(* C10 *)

\* C10: the stored initialization_size and image_length are the sector count
\* ceil((512 + N) / 512) modulo 2^16; a count above 0xFFFF does not stop the
\* run, it is stored wrapped around.
C10_SizeFieldsWrap ==
    Done =>
        /\ StoredInitializationSize = TrueSectors % 65536
        /\ StoredImageLength = TrueSectors % 65536

\* a finished run whose sector count does not fit 16 bits
C10_Witness == Done /\ TrueSectors > 65535 /\ StoredInitializationSize < 2

====
